---- MODULE Spec2Model ----
(***************************************************************************)
(* gamma: the CPU raytracer of bigraytracer.                               *)
(*                                                                         *)
(*   Spec      the Renderer (gamma/renderer/renderer.go): construction,    *)
(*             SetScene, Render, Resize and Export, the latter with its    *)
(*             encoding goroutine, the done channel and the target file.   *)
(*   SpecVec   the Vec3 operations (gamma/geometry), in-place and pure,    *)
(*             applied once to operands drawn from a bounded integer set.  *)
(*   SpecConv  the float -> 8 bit channel conversion of createImageData,   *)
(*             applied to one channel value drawn from a fixed-point set.  *)
(*                                                                         *)
(* A channel value c is held as the integer n with c = n / ChanDen, where  *)
(* ChanDen is a power of two, so that c and c * 255 are exact in float64   *)
(* and the model's integer arithmetic is the code's arithmetic.            *)
(***************************************************************************)
EXTENDS Integers, Sequences, FiniteSets, TLC

VARIABLES
    \* ---- Renderer fields (renderer.go:15-25)
    imgWidth, imgHeight, viewportWidth, viewportHeight, focalLength,
    scene, pixelBuffer, rendered,
    \* ---- the caller's goroutine and the locals of Export
    mpc,          \* "new" | "idle" | "create" | "recv" | "panic"
    expFormat,    \* format argument of the Export call
    img,          \* *image.RGBA built by createImageData
    done,         \* the buffered channel of capacity 1, as a sequence
    \* ---- the encoding goroutine(s)
    wpc,          \* "none" | "encode" | "send": the goroutine of the Export in progress
    encodeErr,    \* its local encodeErr
    closing,      \* goroutines that have sent on done and still owe the deferred file.Close()
    \* ---- the file at the target path
    fileContent,  \* "absent" | "empty" | "partial" | "encoded"
    \* ---- history
    calls,        \* number of calls made so far
    lastOp,       \* the most recent call
    lastMut,      \* the most recent call among NewRenderer, Resize, Render
    lastErr,      \* what the most recent call reported
    created,      \* os.Create has run in the most recent Export call
    fileAtCall,   \* fileContent when the most recent Export call started
    \* ---- SpecVec
    vop, va, vb, vs, va0, vb0, vresV, vresS,
    \* ---- SpecConv
    cpc, cchan, cv, cout

rfields == <<imgWidth, imgHeight, viewportWidth, viewportHeight, focalLength,
             scene, pixelBuffer, rendered>>
xvars   == <<mpc, expFormat, img, done, wpc, encodeErr, closing, fileContent>>
hvars   == <<calls, lastOp, lastMut, lastErr, created, fileAtCall>>
vecvars == <<vop, va, vb, vs, va0, vb0, vresV, vresS>>
cvars   == <<cpc, cchan, cv, cout>>
vars    == <<rfields, xvars, hvars, vecvars, cvars>>

----------------------------------------------------------------------------
\* Bounds of the model.

\* Image dimensions are drawn from -1 .. MaxDim.
MaxDim == 2
\* At most MaxCalls calls are made on the Renderer in one run.
MaxCalls == 5
\* Vector components and scalars are drawn from -MaxCoord .. MaxCoord.
MaxCoord == 1
\* Channel values are multiples of 1 / 2^FracBits.
FracBits == 3

Dims == (0 - 1)..MaxDim
Scenes == {"nil", "s1", "s2"}
Formats == {"PNG", "JPEG", "OTHER"}
Coords == (0 - MaxCoord)..MaxCoord
ChanDen == 2 ^ FracBits
\* c in [-1/2, 3/2]
ChanNums == (0 - (ChanDen \div 2))..(ChanDen + (ChanDen \div 2))
Byte == 0..255

----------------------------------------------------------------------------
\* gamma/geometry: Vec3

Vec3(x, y, z) == [X |-> x, Y |-> y, Z |-> z]

NewVec3(x, y, z) == Vec3(x, y, z)

ZERO_VEC3 == NewVec3(0, 0, 0)

Vecs == [X : Coords, Y : Coords, Z : Coords]

\* func (v *Vec3) Add(v2 Vec3): three assignments through the pointer, in order.
\* v2 is a copy of the argument, so it does not change while v is written.
MethodAdd(v, v2) ==
    LET s1 == [v  EXCEPT !.X = v.X + v2.X]
        s2 == [s1 EXCEPT !.Y = s1.Y + v2.Y]
        s3 == [s2 EXCEPT !.Z = s2.Z + v2.Z]
    IN  s3

Add(v1, v2) == Vec3(v1.X + v2.X, v1.Y + v2.Y, v1.Z + v2.Z)

\* An in-place Sub whose third assignment reads the component it has just written.
MethodSubStale(v, v2) ==
    LET s1 == [v  EXCEPT !.X = v.X - v2.X]
        s2 == [s1 EXCEPT !.Y = s1.Y - v2.Y]
        s3 == [s2 EXCEPT !.Z = s2.Y - v2.Z]
    IN  s3

\* func (v *Vec3) Sub(v2 Vec3)
MethodSub(v, v2) ==
    LET s1 == [v  EXCEPT !.X = v.X - v2.X]
        s2 == [s1 EXCEPT !.Y = s1.Y - v2.Y]
        s3 == [s2 EXCEPT !.Z = s2.Z - v2.Z]
    IN  s3

Sub(v1, v2) == Vec3(v1.X - v2.X, v1.Y - v2.Y, v1.Z - v2.Z)

MethodMul(v, scalar) ==
    LET s1 == [v  EXCEPT !.X = v.X * scalar]
        s2 == [s1 EXCEPT !.Y = s1.Y * scalar]
        s3 == [s2 EXCEPT !.Z = s2.Z * scalar]
    IN  s3

Mul(v1, scalar) == Vec3(v1.X * scalar, v1.Y * scalar, v1.Z * scalar)

MethodDot(v, v2) == v.X * v2.X + v.Y * v2.Y + v.Z * v2.Z

Dot(v1, v2) == v1.X * v2.X + v1.Y * v2.Y + v1.Z * v2.Z

Negate(v) ==
    LET s1 == [v  EXCEPT !.X = 0 - v.X]
        s2 == [s1 EXCEPT !.Y = 0 - s1.Y]
        s3 == [s2 EXCEPT !.Z = 0 - s2.Z]
    IN  s3

Neg(v) == Vec3(0 - v.X, 0 - v.Y, 0 - v.Z)

MethodCross(v, v2) ==
    Vec3(v.Y * v2.Z - v.Z * v2.Y,
         v.Z * v2.X - v.X * v2.Z,
         v.X * v2.Y - v.Y * v2.X)

Cross(v1, v2) ==
    Vec3(v1.Y * v2.Z - v1.Z * v2.Y,
         v1.Z * v2.X - v1.X * v2.Z,
         v1.X * v2.Y - v1.Y * v2.X)

----------------------------------------------------------------------------
\* createImageData: uint8(channel * 255)

\* The 8 bit channel maximum the code multiplies by.
ChannelScale == 255

\* channel * 255, as the pair numerator / ChanDen
Scaled(n) == n * ChannelScale

\* uint8 holds the truncation of x exactly when -1 < x < 256
Representable(n) == Scaled(n) > 0 - ChanDen /\ Scaled(n) < 256 * ChanDen

\* Truncation toward zero, for a representable value.
Truncated(n) == IF Scaled(n) < 0 THEN 0 ELSE Scaled(n) \div ChanDen

\* The Go conversion uint8(f): truncation when the value is representable; otherwise the
\* result is implementation-dependent, u standing for what the build produces.
ToUint8(n, u) == IF Representable(n) THEN Truncated(n) ELSE u

Uint8Outcomes(n) == {ToUint8(n, u) : u \in Byte}

\* round(clamp(c, 0, 1) * 255), rounding halves away from zero
Clamp01(n) == IF n < 0 THEN 0 ELSE IF n > ChanDen THEN ChanDen ELSE n

RoundClamp(n) == (2 * Scaled(Clamp01(n)) + ChanDen) \div (2 * ChanDen)

----------------------------------------------------------------------------
\* gamma/renderer: Renderer

\* 2.0 and 1.0 of NewRenderer
ViewportHeightDefault == 2
FocalLengthDefault == 1

\* 2.0 * float64(imgWidth) / float64(imgHeight) in float64: a division by zero yields an
\* infinity or NaN, never a panic.
ViewportWidthOf(w, h) ==
    IF h # 0 THEN [kind |-> "finite", num |-> 2 * w, den |-> h]
    ELSE IF w > 0 THEN [kind |-> "+Inf", num |-> 0, den |-> 0]
    ELSE IF w < 0 THEN [kind |-> "-Inf", num |-> 0, den |-> 0]
    ELSE [kind |-> "NaN", num |-> 0, den |-> 0]

ZeroFloat == [kind |-> "finite", num |-> 0, den |-> 1]

\* make([]geometry.Vec3, imgWidth) panics on a negative length; the loop body runs only
\* when imgHeight > 0.
AllocPanics(w, h) == h > 0 /\ w < 0

\* A buffer with the rows and columns swapped.
AllocBufferTransposed(w, h) ==
    IF w <= 0 THEN <<>> ELSE [i \in 1..w |-> [j \in 1..h |-> ZERO_VEC3]]

\* for i := 0; i < imgHeight; i++ { buffer = append(buffer, make([]Vec3, imgWidth)) }
AllocBuffer(w, h) ==
    IF h <= 0 THEN <<>> ELSE [i \in 1..h |-> [j \in 1..w |-> ZERO_VEC3]]

RGBA(r, g, b, a) == [R |-> r, G |-> g, B |-> b, A |-> a]

Abs(n) == IF n < 0 THEN 0 - n ELSE n

\* createImageData past its rendered check, u being what the build yields for a channel
\* uint8 cannot represent. image.Rect(0, 0, w, h) is made canonical, so the raster is
\* |h| rows of |w| pixels, all zero until Set; the loops run only over positive ranges.
createImageData(u) ==
    [dx  |-> Abs(imgWidth),
     dy  |-> Abs(imgHeight),
     pix |-> IF imgHeight > 0 /\ imgWidth > 0
             THEN [y \in 1..imgHeight |-> [x \in 1..imgWidth |->
                      RGBA(ToUint8(pixelBuffer[y][x].X, u),
                           ToUint8(pixelBuffer[y][x].Y, u),
                           ToUint8(pixelBuffer[y][x].Z, u),
                           255)]]
             ELSE IF imgHeight = 0 \/ imgWidth = 0 THEN <<>>
             ELSE [y \in 1..Abs(imgHeight) |-> [x \in 1..Abs(imgWidth) |->
                      RGBA(0, 0, 0, 0)]]]

NoImage == [dx |-> 0, dy |-> 0, pix |-> <<>>]

\* The values a build can yield for the unrepresentable channels of the buffer: one
\* value when every channel is representable.
BuildOutcomes ==
    IF \A y \in DOMAIN pixelBuffer : \A x \in DOMAIN pixelBuffer[y] :
          /\ Representable(pixelBuffer[y][x].X)
          /\ Representable(pixelBuffer[y][x].Y)
          /\ Representable(pixelBuffer[y][x].Z)
    THEN {0} ELSE Byte

Called(op) == /\ calls < MaxCalls
              /\ calls' = calls + 1
              /\ lastOp' = op

RendererInit ==
    /\ imgWidth = 0 /\ imgHeight = 0
    /\ viewportWidth = ZeroFloat /\ viewportHeight = 0 /\ focalLength = 0
    /\ scene = "nil" /\ pixelBuffer = <<>> /\ rendered = FALSE
    /\ mpc = "new" /\ expFormat = "PNG" /\ img = NoImage /\ done = <<>>
    /\ wpc = "none" /\ encodeErr = "nil" /\ closing = 0
    /\ fileContent \in {"absent", "encoded"}
    /\ calls = 0 /\ lastOp = "none" /\ lastMut = "none" /\ lastErr = "none"
    /\ created = FALSE /\ fileAtCall = fileContent

VecIdle ==
    /\ vop = "off" /\ va = ZERO_VEC3 /\ vb = ZERO_VEC3 /\ vs = 0
    /\ va0 = ZERO_VEC3 /\ vb0 = ZERO_VEC3 /\ vresV = ZERO_VEC3 /\ vresS = 0

ConvIdle == cpc = "off" /\ cchan = "X" /\ cv = 0 /\ cout = 0

Init == RendererInit /\ VecIdle /\ ConvIdle

\* func NewRenderer(imgWidth, imgHeight int) Renderer
NewRenderer(w, h) ==
    /\ mpc = "new"
    /\ Called("NewRenderer")
    /\ lastMut' = "NewRenderer"
    /\ lastErr' = "none"
    /\ IF AllocPanics(w, h)
       THEN /\ mpc' = "panic"
            /\ UNCHANGED rfields
       ELSE /\ mpc' = "idle"
            /\ imgWidth' = w
            /\ imgHeight' = h
            /\ viewportWidth' = ViewportWidthOf(w, h)
            /\ viewportHeight' = ViewportHeightDefault
            /\ focalLength' = FocalLengthDefault
            /\ pixelBuffer' = AllocBuffer(w, h)
            /\ rendered' = FALSE
            /\ scene' = "nil"
    /\ UNCHANGED <<expFormat, img, done, wpc, encodeErr, closing, fileContent>>
    /\ UNCHANGED <<created, fileAtCall, vecvars, cvars>>

\* SetScene that also invalidates the image.
SetSceneInvalidating(s) ==
    /\ mpc = "idle"
    /\ Called("SetScene")
    /\ scene' = s
    /\ rendered' = FALSE
    /\ lastErr' = "none"
    /\ UNCHANGED <<imgWidth, imgHeight, viewportWidth, viewportHeight, focalLength,
                   pixelBuffer>>
    /\ UNCHANGED <<xvars, lastMut, created, fileAtCall, vecvars, cvars>>

\* func (r *Renderer) SetScene(scene *scene.Scene)
SetScene(s) ==
    /\ mpc = "idle"
    /\ Called("SetScene")
    /\ scene' = s
    /\ lastErr' = "none"
    /\ UNCHANGED <<imgWidth, imgHeight, viewportWidth, viewportHeight, focalLength,
                   pixelBuffer, rendered>>
    /\ UNCHANGED <<xvars, lastMut, created, fileAtCall, vecvars, cvars>>

\* func (r *Renderer) Render(): the rendering itself is a comment, the buffer is not written
Render ==
    /\ mpc = "idle"
    /\ Called("Render")
    /\ rendered' = TRUE
    /\ lastMut' = "Render"
    /\ lastErr' = "none"
    /\ UNCHANGED <<imgWidth, imgHeight, viewportWidth, viewportHeight, focalLength,
                   scene, pixelBuffer>>
    /\ UNCHANGED <<xvars, created, fileAtCall, vecvars, cvars>>

\* Resize that keeps the rendered flag.
ResizeKeepsRendered(w, h) ==
    /\ mpc = "idle"
    /\ Called("Resize")
    /\ lastMut' = "Resize"
    /\ lastErr' = "none"
    /\ imgWidth' = w
    /\ imgHeight' = h
    /\ viewportWidth' = ViewportWidthOf(w, h)
    /\ IF AllocPanics(w, h)
       THEN mpc' = "panic" /\ UNCHANGED pixelBuffer
       ELSE mpc' = "idle" /\ pixelBuffer' = AllocBuffer(w, h)
    /\ UNCHANGED <<viewportHeight, focalLength, scene, rendered>>
    /\ UNCHANGED <<expFormat, img, done, wpc, encodeErr, closing, fileContent>>
    /\ UNCHANGED <<created, fileAtCall, vecvars, cvars>>

\* func (r *Renderer) Resize(imgWidth, imgHeight int): the three fields are assigned
\* before the allocation, so a panic in make leaves them written and the buffer and the
\* flag as they were.
Resize(w, h) ==
    /\ mpc = "idle"
    /\ Called("Resize")
    /\ lastMut' = "Resize"
    /\ lastErr' = "none"
    /\ imgWidth' = w
    /\ imgHeight' = h
    /\ viewportWidth' = ViewportWidthOf(w, h)
    /\ IF AllocPanics(w, h)
       THEN mpc' = "panic" /\ UNCHANGED <<pixelBuffer, rendered>>
       ELSE mpc' = "idle" /\ pixelBuffer' = AllocBuffer(w, h) /\ rendered' = FALSE
    /\ UNCHANGED <<viewportHeight, focalLength, scene>>
    /\ UNCHANGED <<expFormat, img, done, wpc, encodeErr, closing, fileContent>>
    /\ UNCHANGED <<created, fileAtCall, vecvars, cvars>>

----------------------------------------------------------------------------
\* Export (renderer.go:94-137)

\* Export that validates the format before it touches the file.
ExportCallValidatingFirst(format) ==
    /\ mpc = "idle"
    /\ Called("Export")
    /\ expFormat' = format
    /\ created' = FALSE
    /\ fileAtCall' = fileContent
    /\ IF ~rendered
       THEN lastErr' = "NotRendered" /\ mpc' = "idle" /\ UNCHANGED img
       ELSE IF format \notin {"PNG", "JPEG"}
       THEN lastErr' = "UnsupportedFormat" /\ mpc' = "idle" /\ UNCHANGED img
       ELSE /\ \E u \in BuildOutcomes : img' = createImageData(u)
            /\ lastErr' = "pending"
            /\ mpc' = "create"
    /\ UNCHANGED <<rfields, done, wpc, encodeErr, closing, fileContent, lastMut>>
    /\ UNCHANGED <<vecvars, cvars>>

\* Export that marks the image as consumed.
ExportCallConsuming(format) ==
    /\ mpc = "idle"
    /\ Called("Export")
    /\ expFormat' = format
    /\ created' = FALSE
    /\ fileAtCall' = fileContent
    /\ IF ~rendered
       THEN lastErr' = "NotRendered" /\ mpc' = "idle" /\ UNCHANGED img
       ELSE /\ \E u \in BuildOutcomes : img' = createImageData(u)
            /\ lastErr' = "pending"
            /\ mpc' = "create"
    /\ rendered' = FALSE
    /\ UNCHANGED <<imgWidth, imgHeight, viewportWidth, viewportHeight, focalLength,
                   scene, pixelBuffer>>
    /\ UNCHANGED <<done, wpc, encodeErr, closing, fileContent, lastMut>>
    /\ UNCHANGED <<vecvars, cvars>>

\* Export, lines 94-99: img, err := r.createImageData(); if err != nil { return err }.
\* createImageData (lines 71-75) fails when the flag is false and otherwise builds the
\* raster from the buffer.
ExportCall(format) ==
    /\ mpc = "idle"
    /\ Called("Export")
    /\ expFormat' = format
    /\ created' = FALSE
    /\ fileAtCall' = fileContent
    /\ IF ~rendered
       THEN lastErr' = "NotRendered" /\ mpc' = "idle" /\ UNCHANGED img
       ELSE /\ \E u \in BuildOutcomes : img' = createImageData(u)
            /\ lastErr' = "pending"
            /\ mpc' = "create"
    /\ UNCHANGED <<rfields, done, wpc, encodeErr, closing, fileContent, lastMut>>
    /\ UNCHANGED <<vecvars, cvars>>

\* Lines 101-109, os.Create succeeds: the file exists and is empty, the channel is made
\* and the goroutine is started.
ExportCreateOk ==
    /\ mpc = "create"
    /\ fileContent' = "empty"
    /\ created' = TRUE
    /\ done' = <<>>
    /\ wpc' = "encode"
    /\ encodeErr' = "nil"
    /\ mpc' = "recv"
    /\ UNCHANGED <<rfields, expFormat, img, closing>>
    /\ UNCHANGED <<calls, lastOp, lastMut, lastErr, fileAtCall, vecvars, cvars>>

\* Lines 101-105, os.Create fails: the error is returned, no goroutine is started.
ExportCreateFail ==
    /\ mpc = "create"
    /\ lastErr' = "CreateError"
    /\ mpc' = "idle"
    /\ UNCHANGED <<rfields, expFormat, img, done, wpc, encodeErr, closing, fileContent>>
    /\ UNCHANGED <<calls, lastOp, lastMut, created, fileAtCall, vecvars, cvars>>

\* png.Encode rejects an image with no pixels before it writes anything.
EncodeCanSucceed == expFormat = "JPEG" \/ (img.dx > 0 /\ img.dy > 0)

\* The encoding goroutine with no default case in its switch.
WorkerEncodeNoDefault ==
    /\ wpc = "encode"
    /\ wpc' = "send"
    /\ IF expFormat \in {"PNG", "JPEG"}
       THEN \/ /\ EncodeCanSucceed
               /\ encodeErr' = "nil"
               /\ fileContent' = "encoded"
            \/ /\ encodeErr' = "EncodeError"
               /\ fileContent' \in
                    IF expFormat = "PNG" /\ ~EncodeCanSucceed
                    THEN {fileContent} ELSE {fileContent, "partial"}
       ELSE /\ encodeErr' = "nil"
            /\ UNCHANGED fileContent
    /\ UNCHANGED <<rfields, mpc, expFormat, img, done, closing, hvars, vecvars, cvars>>

\* Lines 112-120, the goroutine's switch: the encoder writes the file and succeeds, or
\* fails (an I/O error at any write, or a raster the encoder rejects); any other format
\* yields the unsupported-format error and writes nothing.
WorkerEncode ==
    /\ wpc = "encode"
    /\ wpc' = "send"
    /\ IF expFormat \in {"PNG", "JPEG"}
       THEN \/ /\ EncodeCanSucceed
               /\ encodeErr' = "nil"
               /\ fileContent' = "encoded"
            \/ /\ encodeErr' = "EncodeError"
               /\ fileContent' \in
                    IF expFormat = "PNG" /\ ~EncodeCanSucceed
                    THEN {fileContent} ELSE {fileContent, "partial"}
       ELSE /\ encodeErr' = "UnsupportedFormat"
            /\ UNCHANGED fileContent
    /\ UNCHANGED <<rfields, mpc, expFormat, img, done, closing, hvars, vecvars, cvars>>

\* Line 126, done <- encodeErr: the channel has capacity 1 and is empty, so the send
\* never blocks. What is left of the goroutine is the deferred file.Close().
WorkerSend ==
    /\ wpc = "send"
    /\ Len(done) < 1
    /\ done' = Append(done, encodeErr)
    /\ wpc' = "none"
    /\ closing' = closing + 1
    /\ UNCHANGED <<rfields, mpc, expFormat, img, encodeErr, fileContent>>
    /\ UNCHANGED <<hvars, vecvars, cvars>>

\* Line 110, defer file.Close(): runs as the goroutine returns, after the send.
WorkerClose ==
    /\ closing > 0
    /\ closing' = closing - 1
    /\ UNCHANGED <<rfields, mpc, expFormat, img, done, wpc, encodeErr, fileContent>>
    /\ UNCHANGED <<hvars, vecvars, cvars>>

\* Lines 129-136, err = <-done and the return of Export.
ExportRecv ==
    /\ mpc = "recv"
    /\ Len(done) > 0
    /\ lastErr' = Head(done)
    /\ done' = Tail(done)
    /\ mpc' = "idle"
    /\ UNCHANGED <<rfields, expFormat, img, wpc, encodeErr, closing, fileContent>>
    /\ UNCHANGED <<calls, lastOp, lastMut, created, fileAtCall, vecvars, cvars>>

Next ==
    \/ \E w \in Dims, h \in Dims : NewRenderer(w, h)
    \/ \E s \in Scenes : SetScene(s)
    \/ Render
    \/ \E w \in Dims, h \in Dims : Resize(w, h)
    \/ \E format \in Formats : ExportCall(format)
    \/ ExportCreateOk
    \/ ExportCreateFail
    \/ WorkerEncode
    \/ WorkerSend
    \/ WorkerClose
    \/ ExportRecv

Spec == Init /\ [][Next]_vars

----------------------------------------------------------------------------
\* SpecVec: one Vec3 operation applied to operands a, b and scalar s.

RendererOff == RendererInit /\ fileContent = "absent"

InitVec ==
    /\ RendererOff /\ ConvIdle
    /\ vop = "init"
    /\ va \in Vecs /\ vb \in Vecs /\ vs \in Coords
    /\ va0 = va /\ vb0 = vb
    /\ vresV = ZERO_VEC3 /\ vresS = 0

\* An in-place call a.op(...): the receiver is written through the pointer, the argument
\* was copied at the call.
InPlace(name, result) ==
    /\ vop = "init"
    /\ vop' = name
    /\ va' = result
    /\ UNCHANGED <<vb, vs, va0, vb0, vresV, vresS>>
    /\ UNCHANGED <<rfields, xvars, hvars, cvars>>

\* A call returning a Vec3: the operands were passed by value.
PureV(name, result) ==
    /\ vop = "init"
    /\ vop' = name
    /\ vresV' = result
    /\ UNCHANGED <<va, vb, vs, va0, vb0, vresS>>
    /\ UNCHANGED <<rfields, xvars, hvars, cvars>>

\* A call returning a float64.
PureS(name, result) ==
    /\ vop = "init"
    /\ vop' = name
    /\ vresS' = result
    /\ UNCHANGED <<va, vb, vs, va0, vb0, vresV>>
    /\ UNCHANGED <<rfields, xvars, hvars, cvars>>

CallMethodAdd   == InPlace("a.Add", MethodAdd(va, vb))
CallAdd         == PureV("Add", Add(va, vb))
CallMethodSub   == InPlace("a.Sub", MethodSub(va, vb))
CallSub         == PureV("Sub", Sub(va, vb))
CallMethodMul   == InPlace("a.Mul", MethodMul(va, vs))
CallMul         == PureV("Mul", Mul(va, vs))
CallNegate      == InPlace("a.Negate", Negate(va))
CallNeg         == PureV("a.Neg", Neg(va))
CallMethodDot   == PureS("a.Dot", MethodDot(va, vb))
CallDot         == PureS("Dot", Dot(va, vb))
CallMethodCross == PureV("a.Cross", MethodCross(va, vb))
CallCross       == PureV("Cross", Cross(va, vb))

NextVec ==
    \/ CallMethodAdd
    \/ CallAdd
    \/ CallMethodSub
    \/ CallSub
    \/ CallMethodMul
    \/ CallMul
    \/ CallNegate
    \/ CallNeg
    \/ CallMethodDot
    \/ CallDot
    \/ CallMethodCross
    \/ CallCross

SpecVec == InitVec /\ [][NextVec]_vars

----------------------------------------------------------------------------
\* SpecConv: the conversion of one channel of one buffer cell (renderer.go:82-84).

InitConv ==
    /\ RendererOff /\ VecIdle
    /\ cpc = "init"
    /\ cchan \in {"X", "Y", "Z"}
    /\ cv \in ChanNums
    /\ cout = 0

\* red := uint8(r.pixelBuffer[y][x].X * 255), and the same for green and blue
ConvertChannel ==
    /\ cpc = "init"
    /\ cpc' = "done"
    /\ cout' \in Uint8Outcomes(cv)
    /\ UNCHANGED <<cchan, cv>>
    /\ UNCHANGED <<rfields, xvars, hvars, vecvars>>

NextConv == ConvertChannel

SpecConv == InitConv /\ [][NextConv]_vars

----------------------------------------------------------------------------
\* Properties

Live == mpc \notin {"new", "panic"}

ExportReturned == lastOp = "Export" /\ mpc = "idle"

\* C1: the rendered flag is true exactly when the last call among NewRenderer, Resize and
\* Render was Render, and an Export that has returned reported NotRendered exactly when
\* that last call was not Render.
RenderedTracksLastRender ==
    /\ Live => (rendered <=> lastMut = "Render")
    /\ ExportReturned => (lastErr = "NotRendered" <=> lastMut # "Render")

\* C1 witness: an Export after a Resize was rejected as NotRendered.
ExportRejectedAfterResize ==
    ExportReturned /\ lastMut = "Resize" /\ lastErr = "NotRendered" /\ calls >= 4

\* C2 (as claimed): a NewRenderer or Resize that was given a non-positive width or height
\* and returned has reported InvalidDimensions.
InvalidDimensionsReported ==
    (lastOp \in {"NewRenderer", "Resize"} /\ mpc = "idle"
        /\ (imgWidth <= 0 \/ imgHeight <= 0))
    => lastErr = "InvalidDimensions"

\* C3 (as claimed): once an Export that created its file has returned, no encoding
\* goroutine still has its file to close.
ExportSynchronous ==
    (ExportReturned /\ created) => closing = 0

\* C4 (as claimed): an Export on a rendered Renderer with a format other than PNG or JPEG
\* returns the UnsupportedFormat error.
UnsupportedFormatAlways ==
    (ExportReturned /\ rendered /\ expFormat \notin {"PNG", "JPEG"})
    => lastErr = "UnsupportedFormat"

\* C4 (amended): an Export on a rendered Renderer with a format other than PNG or JPEG
\* never returns nil: it returns the UnsupportedFormat error when the target file was
\* created and the error of os.Create when it was not.
UnsupportedFormatOrCreateError ==
    (ExportReturned /\ rendered /\ expFormat \notin {"PNG", "JPEG"})
    => lastErr = (IF created THEN "UnsupportedFormat" ELSE "CreateError")

\* C4 witness: such an Export has returned UnsupportedFormat.
UnsupportedFormatReturned ==
    ExportReturned /\ rendered /\ expFormat = "OTHER" /\ lastErr = "UnsupportedFormat"

\* C5: whenever the dimensions are positive the buffer has imgHeight rows of imgWidth
\* cells each.
BufferShape ==
    (imgWidth > 0 /\ imgHeight > 0)
    => /\ Len(pixelBuffer) = imgHeight
       /\ \A y \in 1..Len(pixelBuffer) : Len(pixelBuffer[y]) = imgWidth

\* C5 witness: Resize(2, 1) has returned and left a buffer of 1 row by 2 columns.
ResizedTwoByOne ==
    /\ lastOp = "Resize" /\ mpc = "idle"
    /\ imgWidth = 2 /\ imgHeight = 1
    /\ Len(pixelBuffer) = 1 /\ Len(pixelBuffer[1]) = 2

\* C6 (as claimed): a converted channel value is round(clamp(c, 0, 1) * 255).
ChannelRoundClamp ==
    cpc = "done" => cout = RoundClamp(cv)

\* C7: no step of an Export call, from the call to the goroutine's last step, changes a
\* field of the Renderer, and an Export called while rendered is true is accepted.
ExportReadOnly ==
    [][ /\ lastOp' = "Export" => UNCHANGED rfields
        /\ (rendered /\ calls' = calls + 1 /\ lastOp' = "Export")
              => (lastErr' # "NotRendered" /\ mpc' = "create") ]_vars

\* C7 witness: NewRenderer, Render, Export, Export, both exports accepted and their
\* goroutines still to close their files.
ExportedTwice ==
    calls = 4 /\ lastOp = "Export" /\ closing = 2 /\ rendered /\ mpc = "idle"

\* C8: after an in-place operation the receiver equals the pure counterpart applied to
\* the original operands, the method and function forms of Dot and Cross return equal
\* results, and a pure form leaves its operands as they were.
InPlaceEqualsPure ==
    /\ vop = "a.Add" => va = Add(va0, vb0)
    /\ vop = "a.Sub" => va = Sub(va0, vb0)
    /\ vop = "a.Mul" => va = Mul(va0, vs)
    /\ vop = "a.Negate" => va = Neg(va0)
    /\ vop = "Add" => vresV = MethodAdd(va0, vb0)
    /\ vop = "Sub" => vresV = MethodSub(va0, vb0)
    /\ vop = "Mul" => vresV = MethodMul(va0, vs)
    /\ vop = "a.Neg" => vresV = Negate(va0)
    /\ vop = "a.Dot" => vresS = Dot(va0, vb0)
    /\ vop = "Dot" => vresS = MethodDot(va0, vb0)
    /\ vop = "a.Cross" => vresV = Cross(va0, vb0)
    /\ vop = "Cross" => vresV = MethodCross(va0, vb0)
    /\ vop \in {"Add", "Sub", "Mul", "a.Neg", "a.Dot", "Dot", "a.Cross", "Cross"}
          => (va = va0 /\ vb = vb0)
    /\ vop \in {"a.Add", "a.Sub", "a.Mul", "a.Negate"} => vb = vb0

\* C8 witness: a.Sub(b) has changed a receiver with three different components.
SubtractedInPlace ==
    /\ vop = "a.Sub" /\ va # va0
    /\ va0 = Vec3(1, 0, 0 - 1) /\ vb0 = Vec3(0 - 1, 1, 1)
    /\ va = Vec3(2, 0 - 1, 0 - 2)

\* C9: an Export rejected as NotRendered has not run os.Create and has left the file as
\* it was; an Export that returned UnsupportedFormat has run os.Create and has left an
\* empty file at the path.
FormatCheckedAfterCreate ==
    ExportReturned =>
       /\ lastErr = "NotRendered" => (~created /\ fileContent = fileAtCall)
       /\ lastErr = "UnsupportedFormat" => (created /\ fileContent = "empty")

\* C9 witness: an Export with an unsupported format has truncated an encoded file.
EncodedFileTruncated ==
    /\ ExportReturned /\ lastErr = "UnsupportedFormat"
    /\ fileAtCall = "encoded" /\ fileContent = "empty"

\* C10: a SetScene call changes no field of the Renderer but the scene, and an Export
\* called right after a SetScene on a rendered Renderer is accepted and builds its raster
\* from the buffer as it was before the SetScene.
SetSceneFrame ==
    [][ /\ (calls' = calls + 1 /\ lastOp' = "SetScene")
              => UNCHANGED <<imgWidth, imgHeight, viewportWidth, viewportHeight,
                             focalLength, pixelBuffer, rendered>>
        /\ (lastOp = "SetScene" /\ lastMut = "Render"
               /\ calls' = calls + 1 /\ lastOp' = "Export")
              => /\ mpc' = "create"
                 /\ img' \in {createImageData(u) : u \in BuildOutcomes} ]_vars

\* C10 witness: NewRenderer, Render, SetScene(s2): the flag is still true.
SceneSetAfterRender ==
    calls = 3 /\ lastOp = "SetScene" /\ lastMut = "Render" /\ scene = "s2" /\ rendered

====
